---- MODULE Spec2Model ----
(***************************************************************************)
(* video_manger: the migration engine (store/migrate.go), the SQLite      *)
(* store (store/sqlite.go) and the directory sync engine (main.go).        *)
(*                                                                         *)
(* The specifications share the variables:                                 *)
(*   SpecMig   NewSQLite / runMigrations against a database file           *)
(*   Spec      the Store operations on an opened, migrated database        *)
(*   SpecSync  syncDir walks interleaved with directory and name edits     *)
(*   SpecRating  SetVideoRating on the store and through handleSetRating   *)
(*   SpecWatch   RecordWatch with changing positions                       *)
(*   SpecOverlap syncDir runs over two registered trees, one in the other  *)
(*   SpecWalk    one syncDir walk with unreadable folders, failing upserts *)
(*   SpecFiles   handleDeleteVideoAndFile and the files on the disk        *)
(*   SpecTags    UpsertTag, TagVideo, UntagVideo with two names            *)
(*   SpecTagRace UpsertTag requests racing with the syncs' auto-tagging    *)
(*   SpecSettings GetSetting and SetSetting on an open store               *)
(*   SpecCancel  syncDir runs whose request context is cancelled           *)
(*   SpecTagFile tag requests and auto-tagging with the keyword writer     *)
(*   SpecTagRequests two clients' tag requests for one video               *)
(*   SpecDeleteFlow handleDeleteDirectoryAndFiles next to upserts          *)
(*   SpecBackfill overlapping syncDir runs, backfill writes counted        *)
(*   SpecMigRace two openers of one file inside runMigrations at once     *)
(***************************************************************************)
EXTENDS Integers, Sequences, FiniteSets, TLC

\* the database file: [schema, ledger, settings]
VARIABLE db
\* per opener: position inside NewSQLite / runMigrations
VARIABLE pc
\* per opener: index into the sorted migration entries
VARIABLE idx
\* per opener: working image of its open transaction, or NoTx
VARIABLE tx
\* per opener: the error NewSQLite returned ("nil" = none)
VARIABLE err
\* per opener: NewSQLite handed out a *SQLiteStore
VARIABLE store
\* foreign_keys flags of the connections in the serving process's pool
VARIABLE pool
\* history: which schema process built the file before the first ledger run
VARIABLE origin
\* history, per opener: the ledger was complete when its invocation began
VARIABLE fullAtStart
\* history, per opener: an engine fault (not an SQL error) hit its invocation
VARIABLE injected

\* table directories: set of [id, path]
VARIABLE directories
\* table videos: set of [id, filename, directory_id, directory_path, display_name, rating]
VARIABLE videos
\* table tags: set of [id, name]
VARIABLE tags
\* table video_tags: number of rows per <<video_id, tag_id>>
VARIABLE video_tags
\* table watch_history: set of [id, video_id, position]
VARIABLE watch_history
\* sqlite_sequence: the last AUTOINCREMENT id handed out per table
VARIABLE autoinc
\* the native title each file on disk carries
VARIABLE fsTitle
\* per syncer: the state of its syncDir walk
VARIABLE sync
\* history: progress of an undisturbed run (and re-run) of syncDir on one directory
VARIABLE quiet
\* history, per syncer: ids of the videos that had a display_name when its walk began
VARIABLE named
\* history: the last call, if it was an UpsertVideo that moved an existing row to another
\* directory or a RecordWatch that replaced another position
VARIABLE last
\* history: per file, the id the latest successful UpsertVideo returned (0: none, or row deleted since)
VARIABLE returned
\* the regular files present on disk
VARIABLE disk
\* history, per syncer: the entries of its walk whose callback ended in an error
VARIABLE skipped
\* history: per settings key, the value of the latest SetSetting ("": none yet)
VARIABLE lastSet
\* the syncers whose request's context has been cancelled while they run
VARIABLE cancelled
\* per tag request: its position in handleAddVideoTag / handleRemoveVideoTag,
\* the video GetVideo returned and the names syncTagsToFile listed
VARIABLE req
\* the keywords each video file on disk carries
VARIABLE keywords
\* the position of a running handleDeleteDirectoryAndFiles: the directory id
\* and the enumerated videos still to process
VARIABLE flow
\* history: per tracked video id, how often a sync's backfill has written its
\* display_name (counted up to 2); a specification tracks the ids its Init names
VARIABLE backfills

migVars == <<db, pc, idx, tx, err, store, pool, origin, fullAtStart, injected>>

catVars == <<directories, videos, tags, video_tags, watch_history, autoinc>>

syncVars == <<fsTitle, sync, quiet, named>>

histVars == <<last, returned>>

envVars == <<disk, skipped, lastSet>>

reqVars == <<cancelled, req, keywords, flow>>

vars == <<migVars, catVars, syncVars, histVars, envVars, reqVars, backfills>>

Openers == {"p1", "p2"}

NoTx == [open |-> FALSE]

(***************************************************************************)
(* Schema objects.  A schema is a set of <<table, column>> pairs; a table  *)
(* constraint that distinguishes two shapes of a table is kept as a        *)
(* pseudo-column.                                                          *)
(***************************************************************************)
Cols(t, cs) == {<<t, c>> : c \in cs}

HasTable(schema, t) == \E pr \in schema : pr[1] = t

HasColumn(schema, t, c) == <<t, c>> \in schema

DropTable(schema, t) == {pr \in schema : pr[1] # t}

RenameTable(schema, from, to) ==
    {pr \in schema : pr[1] # from} \cup {<<to, pr[2]>> : pr \in {q \in schema : q[1] = from}}

DirectoriesCols == {"id", "path"}
TagsCols == {"id", "name"}
VideoTagsCols == {"video_id", "tag_id"}
VideosCols == {"id", "filename", "directory_id", "directory_path", "display_name",
               "UNIQUE(filename,directory_path)"}
OldVideosCols == {"id", "filename", "directory_id", "display_name",
                  "UNIQUE(filename,directory_id)"}
WatchHistoryCols == {"id", "video_id", "position", "watched_at", "UNIQUE(video_id)"}
SettingsCols == {"key", "value"}
SchemaMigrationsCols == {"version", "applied_at"}

EmptySchema == {}

\* The schema of a database created before directory_path existed.
OldestSchema ==
    Cols("directories", DirectoriesCols) \cup Cols("tags", TagsCols)
        \cup Cols("video_tags", VideoTagsCols) \cup Cols("videos", OldVideosCols)

(***************************************************************************)
(* SQL statements of the scripts.                                          *)
(***************************************************************************)
CreateIfNotExists(t, cs) == [op |-> "create_if_not_exists", table |-> t, cols |-> cs]
CreateTable(t, cs) == [op |-> "create", table |-> t, cols |-> cs]
AddColumn(t, c) == [op |-> "add_column", table |-> t, cols |-> {c}]
PragmaForeignKeys == [op |-> "pragma", table |-> "", cols |-> {}]
InsertOrIgnoreSetting(k, v) == [op |-> "insert_or_ignore", table |-> "settings", cols |-> {<<k, v>>}]

\* One statement against a database image d; ok = FALSE is an SQL error.
ExecStmt(d, st) ==
    CASE st.op = "create_if_not_exists" ->
           IF HasTable(d.schema, st.table)
           THEN [ok |-> TRUE, db |-> d]
           ELSE [ok |-> TRUE, db |-> [d EXCEPT !.schema = @ \cup Cols(st.table, st.cols)]]
      [] st.op = "create" ->
           IF HasTable(d.schema, st.table)
           THEN [ok |-> FALSE, db |-> d]
           ELSE [ok |-> TRUE, db |-> [d EXCEPT !.schema = @ \cup Cols(st.table, st.cols)]]
      [] st.op = "add_column" ->
           IF ~HasTable(d.schema, st.table)
              \/ \E c \in st.cols : HasColumn(d.schema, st.table, c)
           THEN [ok |-> FALSE, db |-> d]
           ELSE [ok |-> TRUE, db |-> [d EXCEPT !.schema = @ \cup Cols(st.table, st.cols)]]
      [] st.op = "insert_or_ignore" ->
           IF ~HasTable(d.schema, st.table)
           THEN [ok |-> FALSE, db |-> d]
           ELSE [ok |-> TRUE,
                 db |-> [d EXCEPT !.settings =
                            @ \cup {kv \in st.cols : \A old \in @ : old[1] # kv[1]}]]
      [] OTHER -> [ok |-> TRUE, db |-> d]

\* A multi-statement script: statements run in order and stop at the first
\* error; the image returned on error holds the statements already run.
RECURSIVE ExecScript(_, _)
ExecScript(d, stmts) ==
    IF stmts = <<>> THEN [ok |-> TRUE, db |-> d]
    ELSE LET r == ExecStmt(d, Head(stmts))
         IN IF r.ok THEN ExecScript(r.db, Tail(stmts)) ELSE r

(***************************************************************************)
(* The bundled migration scripts.                                          *)
(***************************************************************************)
Script001WithoutIfNotExists ==
    <<PragmaForeignKeys,
      CreateTable("directories", DirectoriesCols),
      CreateTable("tags", TagsCols),
      CreateTable("videos", VideosCols),
      CreateTable("video_tags", VideoTagsCols)>>

Script001 == <<PragmaForeignKeys,
               CreateIfNotExists("directories", DirectoriesCols),
               CreateIfNotExists("tags", TagsCols),
               CreateIfNotExists("videos", VideosCols),
               CreateIfNotExists("video_tags", VideoTagsCols)>>

Script002 == <<CreateIfNotExists("watch_history", WatchHistoryCols)>>

Script003 == <<AddColumn("videos", "rating")>>

Script004 == <<CreateIfNotExists("settings", SettingsCols),
               InsertOrIgnoreSetting("autoplay_random", "true"),
               InsertOrIgnoreSetting("video_sort", "name")>>

\* An embedded file: key is the zero-padded numeric prefix of its name, by
\* which names of this form compare.
MigrationFile(k, n, s) == [key |-> k, name |-> n, script |-> s]

migrationFS == <<MigrationFile(3, "003_likes", Script003),
                 MigrationFile(1, "001_initial", Script001),
                 MigrationFile(4, "004_settings", Script004),
                 MigrationFile(2, "002_watch_history", Script002)>>

Versions == {migrationFS[i].name : i \in DOMAIN migrationFS}

NameLess(a, b) == a.key < b.key

SortEntriesUnsorted(entries) == entries

\* sort.Slice(entries, by name)
RECURSIVE SortEntries(_)
SortEntries(entries) ==
    IF entries = <<>> THEN <<>>
    ELSE LET m == CHOOSE i \in DOMAIN entries :
                      \A j \in DOMAIN entries : ~NameLess(entries[j], entries[i])
             rest == [k \in 1..(Len(entries) - 1) |->
                         IF k < m THEN entries[k] ELSE entries[k + 1]]
         IN <<entries[m]>> \o SortEntries(rest)

Entries == SortEntries(migrationFS)

(***************************************************************************)
(* Pre-ledger schema process (the binary before runMigrations existed).    *)
(***************************************************************************)
\* migrateVideos: create videos, or rebuild it when directory_path is missing.
migrateVideos(schema) ==
    IF ~HasTable(schema, "videos") THEN schema \cup Cols("videos", VideosCols)
    ELSE IF HasColumn(schema, "videos", "directory_path") THEN schema
    ELSE RenameTable(DropTable(schema, "videos") \cup Cols("videos_new", VideosCols),
                     "videos_new", "videos")

applySchema(schema) ==
    migrateVideos(ExecScript([schema |-> schema, ledger |-> <<>>, settings |-> {}],
                             <<CreateIfNotExists("directories", DirectoriesCols),
                               CreateIfNotExists("tags", TagsCols),
                               CreateIfNotExists("video_tags", VideoTagsCols),
                               PragmaForeignKeys>>).db.schema)

(***************************************************************************)
(* runMigrations.                                                          *)
(***************************************************************************)
EmptyLedger == [v \in Versions |-> 0]

LedgerComplete(d) == \A v \in Versions : d.ledger[v] >= 1

CountAppliedNeverSkips(d, ver) == 0

\* SELECT COUNT(*) FROM schema_migrations WHERE version = ?
CountApplied(d, ver) == d.ledger[ver]

InsertLedgerNoPrimaryKey(d, ver) == [ok |-> TRUE, db |-> [d EXCEPT !.ledger[ver] = @ + 1]]

\* INSERT INTO schema_migrations (version): version is the PRIMARY KEY.
InsertLedger(d, ver) ==
    IF d.ledger[ver] > 0 THEN [ok |-> FALSE, db |-> d]
    ELSE [ok |-> TRUE, db |-> [d EXCEPT !.ledger[ver] = @ + 1]]

RollbackKeepsPartial(d, t) == t

\* tx.Rollback(): the database keeps the image it had before the transaction.
Rollback(d, t) == d

\* tx.Commit(): the database takes the transaction's image.
Commit(d, t) == t

\* Where runMigrations goes when a step of the loop body returns an error.
OnError == "failed"

NewSQLiteStoreIgnoresError(e) == TRUE

\* NewSQLite returns a store only when runMigrations returned nil.
NewSQLiteStore(e) == e = "nil"

Others(p) == Openers \ {p}

\* The locks SQLite's rollback journal gives the transaction of opener q:
\* SHARED from the first statement of the transaction, RESERVED once the
\* transaction has written.
HoldsShared(q) == tx[q].open /\ pc[q] \in {"record", "commit"}

HoldsReserved(q) == HoldsShared(q) /\ tx[q].db # db

\* SQLITE_BUSY for a write of p: another connection holds RESERVED.
BusyWrite(p) == \E q \in Others(p) : HoldsReserved(q)

\* SQLITE_BUSY for the commit of p: another connection still holds SHARED.
BusyCommit(p) == \E q \in Others(p) : HoldsShared(q)

NotRunning(q) == pc[q] \in {"idle", "done", "failed"}

\* main / NewSQLite: sql.Open, PRAGMA foreign_keys = ON on the first connection.
Start(p) ==
    /\ pc[p] = "idle"
    /\ \A q \in Others(p) : NotRunning(q)
    /\ pc' = [pc EXCEPT ![p] = "ledger"]
    /\ err' = [err EXCEPT ![p] = "nil"]
    /\ pool' = {TRUE}
    /\ fullAtStart' = [fullAtStart EXCEPT ![p] =
                           HasTable(db.schema, "schema_migrations") /\ LedgerComplete(db)]
    /\ injected' = [injected EXCEPT ![p] = FALSE]
    /\ UNCHANGED <<db, idx, tx, store, origin>>
    /\ UNCHANGED <<catVars, syncVars, histVars, envVars, reqVars, backfills>>

\* A second process opens the same file while another may still be inside
\* runMigrations.
StartConcurrent(p) ==
    /\ pc[p] = "idle"
    /\ pc' = [pc EXCEPT ![p] = "ledger"]
    /\ err' = [err EXCEPT ![p] = "nil"]
    /\ pool' = {TRUE}
    /\ fullAtStart' = [fullAtStart EXCEPT ![p] =
                           HasTable(db.schema, "schema_migrations") /\ LedgerComplete(db)]
    /\ injected' = [injected EXCEPT ![p] = FALSE]
    /\ UNCHANGED <<db, idx, tx, store, origin>>
    /\ UNCHANGED <<catVars, syncVars, histVars, envVars, reqVars, backfills>>

\* CREATE TABLE IF NOT EXISTS schema_migrations; ReadDir; sort.
CreateLedger(p) ==
    /\ pc[p] = "ledger"
    /\ db' = ExecStmt(db, CreateIfNotExists("schema_migrations", SchemaMigrationsCols)).db
    /\ idx' = [idx EXCEPT ![p] = 1]
    /\ pc' = [pc EXCEPT ![p] = "check"]
    /\ UNCHANGED <<tx, err, store, pool, origin, fullAtStart, injected>>
    /\ UNCHANGED <<catVars, syncVars, histVars, envVars, reqVars, backfills>>

\* Loop head: the loop ends, or the version is skipped, or its script is due.
Check(p) ==
    /\ pc[p] = "check"
    /\ IF idx[p] > Len(Entries)
       THEN /\ pc' = [pc EXCEPT ![p] = "done"]
            /\ store' = [store EXCEPT ![p] = NewSQLiteStore("nil")]
            /\ UNCHANGED idx
       ELSE IF CountApplied(db, Entries[idx[p]].name) > 0
       THEN /\ idx' = [idx EXCEPT ![p] = @ + 1]
            /\ UNCHANGED <<pc, store>>
       ELSE /\ pc' = [pc EXCEPT ![p] = "begin"]
            /\ UNCHANGED <<idx, store>>
    /\ UNCHANGED <<db, tx, err, pool, origin, fullAtStart, injected>>
    /\ UNCHANGED <<catVars, syncVars, histVars, envVars, reqVars, backfills>>

Fail(p, e) ==
    /\ pc' = [pc EXCEPT ![p] = OnError]
    /\ err' = [err EXCEPT ![p] = e]
    /\ store' = [store EXCEPT ![p] = NewSQLiteStore(e)]

\* conn.Begin()
Begin(p, fault) ==
    /\ pc[p] = "begin"
    /\ IF fault
       THEN Fail(p, "begin tx") /\ UNCHANGED tx
       ELSE /\ tx' = [tx EXCEPT ![p] = [open |-> TRUE, db |-> db]]
            /\ pc' = [pc EXCEPT ![p] = "exec"]
            /\ UNCHANGED <<err, store>>
    /\ injected' = [injected EXCEPT ![p] = @ \/ fault]
    /\ UNCHANGED <<db, idx, pool, origin, fullAtStart>>
    /\ UNCHANGED <<catVars, syncVars, histVars, envVars, reqVars, backfills>>

\* tx.Exec(script); on error tx.Rollback() and return.  BEGIN is deferred:
\* the script is the first statement and sees the database as committed.
ExecMigration(p, fault) ==
    /\ pc[p] = "exec"
    /\ LET r == ExecScript(db, Entries[idx[p]].script)
           busy == r.db # db /\ BusyWrite(p)
       IN IF r.ok /\ ~fault /\ ~busy
          THEN /\ tx' = [tx EXCEPT ![p] = [open |-> TRUE, db |-> r.db]]
               /\ pc' = [pc EXCEPT ![p] = "record"]
               /\ UNCHANGED <<db, err, store>>
          ELSE /\ db' = Rollback(db, r.db)
               /\ tx' = [tx EXCEPT ![p] = NoTx]
               /\ Fail(p, "apply migration")
    /\ injected' = [injected EXCEPT ![p] = @ \/ fault]
    /\ UNCHANGED <<idx, pool, origin, fullAtStart>>
    /\ UNCHANGED <<catVars, syncVars, histVars, envVars, reqVars, backfills>>

\* tx.Exec(INSERT INTO schema_migrations); on error tx.Rollback() and return.
RecordMigration(p, fault) ==
    /\ pc[p] = "record"
    /\ LET r == InsertLedger(tx[p].db, Entries[idx[p]].name)
       IN IF r.ok /\ ~fault /\ ~BusyWrite(p)
          THEN /\ tx' = [tx EXCEPT ![p] = [open |-> TRUE, db |-> r.db]]
               /\ pc' = [pc EXCEPT ![p] = "commit"]
               /\ UNCHANGED <<db, err, store>>
          ELSE /\ db' = Rollback(db, r.db)
               /\ tx' = [tx EXCEPT ![p] = NoTx]
               /\ Fail(p, "record migration")
    /\ injected' = [injected EXCEPT ![p] = @ \/ fault]
    /\ UNCHANGED <<idx, pool, origin, fullAtStart>>
    /\ UNCHANGED <<catVars, syncVars, histVars, envVars, reqVars, backfills>>

\* tx.Commit(); a failed commit leaves the database as it was.
CommitMigration(p, fault) ==
    /\ pc[p] = "commit"
    /\ tx' = [tx EXCEPT ![p] = NoTx]
    /\ IF fault \/ BusyCommit(p)
       THEN /\ Fail(p, "commit migration")
            /\ UNCHANGED <<db, idx>>
       ELSE /\ db' = Commit(db, tx[p].db)
            /\ idx' = [idx EXCEPT ![p] = @ + 1]
            /\ pc' = [pc EXCEPT ![p] = "check"]
            /\ UNCHANGED <<err, store>>
    /\ injected' = [injected EXCEPT ![p] = @ \/ fault]
    /\ UNCHANGED <<pool, origin, fullAtStart>>
    /\ UNCHANGED <<catVars, syncVars, histVars, envVars, reqVars, backfills>>

\* log.Fatalf on error, or the process ends; the file stays.
Exit(p) ==
    /\ pc[p] \in {"done", "failed"}
    /\ pc' = [pc EXCEPT ![p] = "idle"]
    /\ store' = [store EXCEPT ![p] = FALSE]
    /\ UNCHANGED <<db, idx, tx, err, pool, origin, fullAtStart, injected>>
    /\ UNCHANGED <<catVars, syncVars, histVars, envVars, reqVars, backfills>>

\* The pre-ledger binary opens the file (before any ledger exists).
LegacyOpen ==
    /\ \A p \in Openers : pc[p] = "idle"
    /\ ~HasTable(db.schema, "schema_migrations")
    /\ db' = [db EXCEPT !.schema = applySchema(@)]
    /\ origin' = "legacy"
    /\ UNCHANGED <<pc, idx, tx, err, store, pool, fullAtStart, injected>>
    /\ UNCHANGED <<catVars, syncVars, histVars, envVars, reqVars, backfills>>

StoreReady == \E p \in Openers : store[p]

SettingKeys == {"autoplay_random", "video_sort"}

\* The keys a caller may ask for: the seeded ones and one that was never stored.
KnownKeys == SettingKeys \cup {"theme"}

SettingValues == {"true", "false", "name", "rating"}

\* GetSetting: SELECT value FROM settings WHERE key = ?; sql.ErrNoRows gives
\* the empty string and a nil error.
GetSetting(d, key) ==
    IF ~HasTable(d.schema, "settings")
    THEN [value |-> "", err |-> "no such table"]
    ELSE IF \E kv \in d.settings : kv[1] = key
         THEN [value |-> (CHOOSE kv \in d.settings : kv[1] = key)[2], err |-> "nil"]
         ELSE [value |-> "", err |-> "nil"]

UpsertSettingKeepsOld(rows, key, value) ==
    IF \E kv \in rows : kv[1] = key THEN rows ELSE rows \cup {<<key, value>>}

\* INSERT ... ON CONFLICT (key) DO UPDATE SET value = excluded.value
UpsertSettingRow(rows, key, value) == {kv \in rows : kv[1] # key} \cup {<<key, value>>}

\* SetSetting
SetSetting(key, value) ==
    /\ StoreReady
    /\ IF HasTable(db.schema, "settings")
       THEN /\ db' = [db EXCEPT !.settings = UpsertSettingRow(@, key, value)]
            /\ lastSet' = [lastSet EXCEPT ![key] = value]
       ELSE UNCHANGED <<db, lastSet>>
    /\ UNCHANGED <<pc, idx, tx, err, store, pool, origin, fullAtStart, injected>>
    /\ UNCHANGED <<catVars, syncVars, histVars, disk, skipped, reqVars, backfills>>

(***************************************************************************)
(* The catalog tables and the Store operations.                            *)
(***************************************************************************)
MaxDirId == 2
MaxVideoId == 2
MaxTagId == 2
MaxWatchId == 2

\* A NULL directory_id; scanVideoRow reads it as DirectoryID 0.
NULL == 0

\* Paths are sequences of components.
Dir(path) == SubSeq(path, 1, Len(path) - 1)

Base(path) == path[Len(path)]

Join(dir, name) == Append(dir, name)

IsUnder(path, root) == Len(path) >= Len(root) /\ SubSeq(path, 1, Len(root)) = root

\* Video.FilePath
FilePath(v) == Join(v.directory_path, v.filename)

\* Video.Title
Title(v) == IF v.display_name # "" THEN v.display_name ELSE v.filename

DirectoryIds == {d.id : d \in directories}

VideoIds == {v.id : v \in videos}

TagIds == {t.id : t \in tags}

\* A REFERENCES constraint: checked only on a connection with foreign_keys ON.
ReferenceOK(fk, ref, ids) == ~fk \/ ref = NULL \/ ref \in ids

TagCount(v, t) == IF <<v, t>> \in DOMAIN video_tags THEN video_tags[<<v, t>>] ELSE 0

NoRow == [id |-> 0]

NewVideo(id, dirID, dirPath, filename) ==
    [id |-> id, filename |-> filename, directory_id |-> dirID, directory_path |-> dirPath,
     display_name |-> "", rating |-> 0]

OnConflictReplaceRow(v, dirID) ==
    [v EXCEPT !.directory_id = dirID, !.display_name = "", !.rating = 0]

\* ON CONFLICT (filename, directory_path) DO UPDATE SET directory_id = excluded.directory_id
OnConflictUpdate(v, dirID) == [v EXCEPT !.directory_id = dirID]

ConflictRowsNone(vs, dirPath, filename) == {}

\* The rows that collide with (filename, directory_path).
ConflictRows(vs, dirPath, filename) ==
    {v \in vs : v.filename = filename /\ v.directory_path = dirPath}

UpsertVideoInsertOnly(fk, dirID, dirPath, filename) ==
    LET id == autoinc.videos + 1
    IN IF ~ReferenceOK(fk, dirID, DirectoryIds) \/ ConflictRows(videos, dirPath, filename) # {}
       THEN [ok |-> FALSE, videos |-> videos, autoinc |-> autoinc, row |-> NoRow]
       ELSE [ok |-> TRUE,
             videos |-> videos \cup {NewVideo(id, dirID, dirPath, filename)},
             autoinc |-> [autoinc EXCEPT !.videos = id],
             row |-> NewVideo(id, dirID, dirPath, filename)]

\* UpsertVideo: the statement's outcome on the current tables.
UpsertVideoResult(fk, dirID, dirPath, filename) ==
    LET old == ConflictRows(videos, dirPath, filename)
        id == autoinc.videos + 1
    IN IF ~ReferenceOK(fk, dirID, DirectoryIds)
       THEN [ok |-> FALSE, videos |-> videos, autoinc |-> autoinc, row |-> NoRow]
       ELSE IF old = {}
       THEN [ok |-> TRUE,
             videos |-> videos \cup {NewVideo(id, dirID, dirPath, filename)},
             autoinc |-> [autoinc EXCEPT !.videos = id],
             row |-> NewVideo(id, dirID, dirPath, filename)]
       ELSE [ok |-> TRUE,
             videos |-> (videos \ old) \cup {OnConflictUpdate(v, dirID) : v \in old},
             autoinc |-> autoinc,
             row |-> OnConflictUpdate(CHOOSE v \in old : TRUE, dirID)]

UpsertTagInsertOnly(name) ==
    LET id == autoinc.tags + 1
    IN [tags |-> tags \cup {[id |-> id, name |-> name]},
        autoinc |-> [autoinc EXCEPT !.tags = id],
        row |-> [id |-> id, name |-> name]]

\* UpsertTag: INSERT ... ON CONFLICT (name) DO UPDATE SET name = excluded.name RETURNING *
UpsertTagResult(name) ==
    LET old == {t \in tags : t.name = name}
        id == autoinc.tags + 1
    IN IF old = {}
       THEN [tags |-> tags \cup {[id |-> id, name |-> name]},
             autoinc |-> [autoinc EXCEPT !.tags = id],
             row |-> [id |-> id, name |-> name]]
       ELSE [tags |-> tags, autoinc |-> autoinc, row |-> CHOOSE t \in old : TRUE]

InsertTagRowAlways(vt, videoID, tagID) ==
    IF <<videoID, tagID>> \in DOMAIN vt
    THEN [vt EXCEPT ![<<videoID, tagID>>] = @ + 1]
    ELSE vt @@ (<<videoID, tagID>> :> 1)

\* INSERT OR IGNORE INTO video_tags: PRIMARY KEY(video_id, tag_id)
InsertOrIgnoreTagRow(vt, videoID, tagID) ==
    IF <<videoID, tagID>> \in DOMAIN vt THEN vt ELSE vt @@ (<<videoID, tagID>> :> 1)

\* TagVideo: the statement's outcome on the current tables.  OR IGNORE skips
\* a row whose key is already there before the references are looked at.
TagVideoResult(fk, videoID, tagID, tagIds) ==
    IF \/ <<videoID, tagID>> \in DOMAIN video_tags
       \/ ReferenceOK(fk, videoID, VideoIds) /\ ReferenceOK(fk, tagID, tagIds)
    THEN [ok |-> TRUE, video_tags |-> InsertOrIgnoreTagRow(video_tags, videoID, tagID)]
    ELSE [ok |-> FALSE, video_tags |-> video_tags]

\* UPDATE videos SET display_name = ? WHERE id = ?
UpdateVideoNameResult(id, name) ==
    {IF v.id = id THEN [v EXCEPT !.display_name = name] ELSE v : v \in videos}

OnDeleteCascadeVideos(vs, fk, id) ==
    IF fk THEN {v \in vs : v.directory_id # id} ELSE vs

\* ON DELETE SET NULL of videos.directory_id, on a connection with foreign_keys ON.
OnDeleteSetNull(vs, fk, id) ==
    IF fk THEN {IF v.directory_id = id THEN [v EXCEPT !.directory_id = NULL] ELSE v : v \in vs}
    ELSE vs

NoCall == [op |-> "none"]

\* What the caller of UpsertVideo now holds for the file.
Returned(r, file) == IF r.ok THEN [returned EXCEPT ![file] = r.row.id] ELSE returned

RestrictTags(vt, keep) == [pr \in {q \in DOMAIN vt : keep[q]} |-> vt[pr]]

\* The server's pool opens another connection when two calls overlap; only
\* the first connection ran PRAGMA foreign_keys = ON.
GrowPool ==
    /\ StoreReady
    /\ pool' = pool \cup {FALSE}
    /\ UNCHANGED <<db, pc, idx, tx, err, store, origin, fullAtStart, injected>>
    /\ UNCHANGED <<catVars, syncVars, histVars, envVars, reqVars, backfills>>

\* AddDirectory: INSERT INTO directories (path); path is UNIQUE.
AddDirectory(path) ==
    /\ StoreReady
    /\ autoinc.directories < MaxDirId
    /\ \A d \in directories : d.path # path
    /\ directories' = directories \cup {[id |-> autoinc.directories + 1, path |-> path]}
    /\ autoinc' = [autoinc EXCEPT !.directories = @ + 1]
    /\ quiet' = [phase |-> 0]
    /\ UNCHANGED <<videos, tags, video_tags, watch_history, fsTitle, sync, named, migVars, envVars, reqVars, backfills>>
    /\ last' = NoCall
    /\ UNCHANGED returned

\* DeleteDirectory: DELETE FROM directories WHERE id = ?
DeleteDirectory(fk, id) ==
    /\ StoreReady
    /\ fk \in pool
    /\ directories' = {d \in directories : d.id # id}
    /\ videos' = OnDeleteSetNull(videos, fk, id)
    /\ quiet' = [phase |-> 0]
    /\ UNCHANGED <<tags, video_tags, watch_history, autoinc, fsTitle, sync, named, migVars, envVars, reqVars, backfills>>
    /\ last' = NoCall
    /\ UNCHANGED returned

\* UpsertVideo called on the store directly.
UpsertVideo(fk, dirID, dirPath, filename) ==
    /\ StoreReady
    /\ fk \in pool
    /\ LET r == UpsertVideoResult(fk, dirID, dirPath, filename)
       IN /\ r.autoinc.videos <= MaxVideoId
          /\ videos' = r.videos
          /\ autoinc' = r.autoinc
          /\ last' = IF r.ok /\ \E v \in ConflictRows(videos, dirPath, filename) :
                                      v.directory_id # dirID
                      THEN [op |-> "UpsertVideo", id |-> r.row.id]
                      ELSE NoCall
          /\ returned' = Returned(r, Join(dirPath, filename))
    /\ quiet' = [phase |-> 0]
    /\ UNCHANGED <<directories, tags, video_tags, watch_history, fsTitle, sync, named, migVars, envVars, reqVars, backfills>>

\* UpdateVideoName called on the store directly.
UpdateVideoName(id, name) ==
    /\ StoreReady
    /\ videos' = UpdateVideoNameResult(id, name)
    /\ quiet' = [phase |-> 0]
    /\ UNCHANGED <<directories, tags, video_tags, watch_history, autoinc, fsTitle, sync, named, migVars, envVars, reqVars, backfills>>
    /\ last' = NoCall
    /\ UNCHANGED returned

\* SetVideoRating: UPDATE videos SET rating = ? WHERE id = ?
SetVideoRating(id, rating) ==
    /\ StoreReady
    /\ videos' = {IF v.id = id THEN [v EXCEPT !.rating = rating] ELSE v : v \in videos}
    /\ UNCHANGED <<directories, tags, video_tags, watch_history, autoinc, syncVars, migVars, envVars, reqVars, backfills>>
    /\ last' = NoCall
    /\ UNCHANGED returned

\* DeleteVideo: DELETE FROM videos WHERE id = ?; video_tags and watch_history
\* rows go with it on a connection with foreign_keys ON.
DeleteVideo(fk, id) ==
    /\ StoreReady
    /\ fk \in pool
    /\ videos' = {v \in videos : v.id # id}
    /\ video_tags' = IF fk /\ id \in VideoIds
                     THEN RestrictTags(video_tags, [q \in DOMAIN video_tags |-> q[1] # id])
                     ELSE video_tags
    /\ watch_history' = IF fk /\ id \in VideoIds
                        THEN {w \in watch_history : w.video_id # id}
                        ELSE watch_history
    /\ UNCHANGED <<directories, tags, autoinc, syncVars, migVars, envVars, reqVars, backfills>>
    /\ last' = NoCall
    /\ returned' = [f \in DOMAIN returned |-> IF returned[f] = id THEN 0 ELSE returned[f]]

\* UpsertTag called on the store directly.
UpsertTag(name) ==
    /\ StoreReady
    /\ LET r == UpsertTagResult(name)
       IN /\ r.autoinc.tags <= MaxTagId
          /\ tags' = r.tags
          /\ autoinc' = r.autoinc
    /\ UNCHANGED <<directories, videos, video_tags, watch_history, syncVars, migVars, envVars, reqVars, backfills>>
    /\ last' = NoCall
    /\ UNCHANGED returned

\* TagVideo called on the store directly.
TagVideo(fk, videoID, tagID) ==
    /\ StoreReady
    /\ fk \in pool
    /\ video_tags' = TagVideoResult(fk, videoID, tagID, TagIds).video_tags
    /\ UNCHANGED <<directories, videos, tags, watch_history, autoinc, syncVars, migVars, envVars, reqVars, backfills>>
    /\ last' = IF <<videoID, tagID>> \in DOMAIN video_tags
               THEN [op |-> "TagVideo", id |-> videoID]
               ELSE NoCall
    /\ UNCHANGED returned

UntagRowsOfVideo(vt, videoID, tagID) == {q \in DOMAIN vt : q[1] = videoID}

\* DELETE FROM video_tags WHERE video_id = ? AND tag_id = ?: the rows deleted.
UntagRows(vt, videoID, tagID) == {q \in DOMAIN vt : q = <<videoID, tagID>>}

\* UntagVideo
UntagVideo(videoID, tagID) ==
    /\ StoreReady
    /\ video_tags' = RestrictTags(video_tags,
                                  [q \in DOMAIN video_tags |->
                                      q \notin UntagRows(video_tags, videoID, tagID)])
    /\ UNCHANGED <<directories, videos, tags, watch_history, autoinc, syncVars, migVars, envVars, reqVars, backfills>>
    /\ last' = IF <<videoID, tagID>> \in DOMAIN video_tags
               THEN NoCall
               ELSE [op |-> "UntagVideo", id |-> videoID]
    /\ UNCHANGED returned

WatchConflictNone(wh, videoID) == {}

\* UNIQUE(video_id): the watch_history rows that collide with video_id.
WatchConflict(wh, videoID) == {w \in wh : w.video_id = videoID}

\* RecordWatch: INSERT INTO watch_history ... ON CONFLICT (video_id) DO UPDATE
RecordWatch(fk, videoID, position) ==
    /\ StoreReady
    /\ fk \in pool
    /\ LET old == WatchConflict(watch_history, videoID)
       IN IF ~ReferenceOK(fk, videoID, VideoIds)
          THEN UNCHANGED <<watch_history, autoinc>>
          ELSE IF old = {}
          THEN /\ autoinc.watch_history < MaxWatchId
               /\ watch_history' = watch_history \cup
                      {[id |-> autoinc.watch_history + 1, video_id |-> videoID,
                        position |-> position]}
               /\ autoinc' = [autoinc EXCEPT !.watch_history = @ + 1]
          ELSE /\ watch_history' = (watch_history \ old) \cup
                      {[w EXCEPT !.position = position] : w \in old}
               /\ UNCHANGED autoinc
    /\ UNCHANGED <<directories, videos, tags, video_tags, syncVars, migVars, envVars, reqVars, backfills>>
    /\ last' = IF ReferenceOK(fk, videoID, VideoIds) /\
                     \E w \in WatchConflict(watch_history, videoID) : w.position # position
                THEN [op |-> "RecordWatch", id |-> videoID]
                ELSE NoCall
    /\ UNCHANGED returned

(***************************************************************************)
(* The directory tree on disk and syncDir.                                 *)
(***************************************************************************)
Syncers == {"s1", "s2"}

\* The folder the user registers.
Roots == {<<"lib", "Shows">>}

Entry(path, isDir) == [path |-> path, isDir |-> isDir]

\* Everything on disk below /lib, in the lexical order WalkDir visits it.
Tree == <<Entry(<<"lib", "Shows">>, TRUE),
          Entry(<<"lib", "Shows", "S1">>, TRUE),
          Entry(<<"lib", "Shows", "S1", "b.MKV">>, FALSE),
          Entry(<<"lib", "Shows", "a.mp4">>, FALSE),
          Entry(<<"lib", "Shows", "notes.txt">>, FALSE)>>

\* filepath.Ext
Ext(name) ==
    CASE name = "a.mp4" -> ".mp4"
      [] name = "b.MKV" -> ".MKV"
      [] name = "notes.txt" -> ".txt"
      [] OTHER -> ""

\* strings.ToLower on an extension
ToLower(ext) ==
    CASE ext = ".MKV" -> ".mkv"
      [] ext = ".MP4" -> ".mp4"
      [] OTHER -> ext

isVideoFile(name) == ToLower(Ext(name)) \in {".mp4", ".webm", ".ogg", ".mov", ".mkv", ".avi"}

\* filepath.WalkDir(root): the root itself, then everything below it.
WalkDir(root) ==
    <<Entry(root, TRUE)>> \o
        SelectSeq(Tree, LAMBDA e : /\ IsUnder(e.path, root)
                                   /\ e.path # root
                                   /\ (e.isDir \/ e.path \in disk))

\* The regular files of the tree.
Files == {Tree[i].path : i \in {k \in DOMAIN Tree : ~Tree[k].isDir}}

VideoFiles == {Tree[i].path : i \in {k \in DOMAIN Tree : ~Tree[k].isDir /\ isVideoFile(Base(Tree[k].path))}}

Names == {"", "N"}

NoDir == [id |-> 0, path |-> <<>>]

Idle == [pc |-> "idle", d |-> NoDir, todo |-> <<>>, v |-> 0]

AllIdle == \A s \in Syncers : sync[s].pc = "idle"

\* The next callback of the walk, or the end of the walk.
NextEntry(st) == [st EXCEPT !.pc = "visit", !.todo = Tail(@), !.v = 0]

\* if v.DisplayName == ""
NeedsBackfillAlways(v) == TRUE

NeedsBackfill(v) == v.display_name = ""

\* syncDir(d) is entered with a registered directory.
SyncStart(s, d) ==
    /\ StoreReady
    /\ sync[s].pc = "idle"
    /\ d \in directories
    /\ sync' = [sync EXCEPT ![s] = [Idle EXCEPT !.pc = "visit", !.d = d, !.todo = WalkDir(d.path)]]
    /\ named' = [named EXCEPT ![s] = {v.id : v \in {w \in videos : w.display_name # ""}}]
    /\ quiet' = IF ~AllIdle THEN [phase |-> 0]
                ELSE IF quiet.phase \in {2, 4} /\ quiet.d = d THEN [phase |-> 3, d |-> d]
                ELSE [phase |-> 1, d |-> d]
    /\ UNCHANGED <<fsTitle, catVars, migVars, envVars, reqVars, backfills>>
    /\ last' = NoCall
    /\ UNCHANGED returned

AbortWalk(st, rest) == [st EXCEPT !.pc = "visit", !.todo = <<>>, !.v = 0]

\* The callback logs an error and returns nil: WalkDir goes on with the rest.
KeepWalking(st, rest) == [st EXCEPT !.pc = "visit", !.todo = rest, !.v = 0]

\* WalkDir could not read a directory: the callback is called with the error
\* and returns nil; WalkDir does not descend into that directory.
VisitError(s) ==
    /\ sync[s].pc = "visit"
    /\ sync[s].todo # <<>>
    /\ Head(sync[s].todo).isDir
    /\ LET e == Head(sync[s].todo)
       IN /\ sync' = [sync EXCEPT ![s] =
                         KeepWalking(@, SelectSeq(Tail(sync[s].todo),
                                                  LAMBDA x : ~IsUnder(x.path, e.path)))]
          /\ skipped' = [skipped EXCEPT ![s] = @ \cup {e.path}]
    /\ quiet' = [phase |-> 0]
    /\ UNCHANGED <<fsTitle, named, catVars, migVars, disk, lastSet, reqVars, backfills>>
    /\ last' = NoCall
    /\ UNCHANGED returned

\* The WalkDir callback up to and including UpsertVideo.
Visit(s, fk) ==
    /\ sync[s].pc = "visit"
    /\ sync[s].todo # <<>>
    /\ fk \in pool
    /\ LET e == Head(sync[s].todo)
           r == UpsertVideoResult(fk, sync[s].d.id, Dir(e.path), Base(e.path))
       IN IF e.isDir \/ ~isVideoFile(Base(e.path))
          THEN /\ sync' = [sync EXCEPT ![s] = NextEntry(@)]
               /\ UNCHANGED <<videos, autoinc, returned, skipped>>
          ELSE /\ r.autoinc.videos <= MaxVideoId
               /\ videos' = r.videos
               /\ autoinc' = r.autoinc
               /\ returned' = Returned(r, e.path)
               /\ skipped' = IF r.ok THEN skipped ELSE [skipped EXCEPT ![s] = @ \cup {e.path}]
               /\ sync' = [sync EXCEPT ![s] =
                              IF ~r.ok THEN KeepWalking(@, Tail(sync[s].todo))
                              ELSE IF NeedsBackfill(r.row)
                                   THEN [@ EXCEPT !.pc = "backfill", !.v = r.row.id]
                                   ELSE [@ EXCEPT !.pc = "tag", !.v = r.row.id]]
    /\ UNCHANGED <<directories, tags, video_tags, watch_history, fsTitle, quiet, named, migVars,
                   disk, lastSet, reqVars, backfills>>
    /\ last' = NoCall

\* metadata.Read(path), then UpdateVideoName(v.ID, meta.Title) when the file
\* carries a native title.
Backfill(s) ==
    /\ sync[s].pc = "backfill"
    /\ LET path == Head(sync[s].todo).path
           title == IF path \in disk THEN fsTitle[path] ELSE ""
       IN /\ videos' = IF title # "" THEN UpdateVideoNameResult(sync[s].v, title) ELSE videos
          /\ backfills' = IF title # "" /\ sync[s].v \in VideoIds /\ sync[s].v \in DOMAIN backfills
                          THEN [backfills EXCEPT ![sync[s].v] = IF @ < 2 THEN @ + 1 ELSE @]
                          ELSE backfills
    /\ sync' = [sync EXCEPT ![s] = [@ EXCEPT !.pc = "tag"]]
    /\ UNCHANGED <<directories, tags, video_tags, watch_history, autoinc, fsTitle, quiet, named, migVars, envVars, reqVars>>
    /\ last' = NoCall
    /\ UNCHANGED returned

AutoTagNameOfParent(d, path) == Base(Dir(path))

\* The auto-tag of a file found below the registered directory d.
AutoTagName(d, path) == Base(d.path)

\* UpsertTag(filepath.Base(d.Path)), then TagVideo(v.ID, dirTag.ID); the
\* callback returns.
AutoTag(s, fk) ==
    /\ sync[s].pc = "tag"
    /\ fk \in pool
    /\ LET r == UpsertTagResult(AutoTagName(sync[s].d, Head(sync[s].todo).path))
       IN /\ r.autoinc.tags <= MaxTagId
          /\ tags' = r.tags
          /\ autoinc' = r.autoinc
          /\ video_tags' = TagVideoResult(fk, sync[s].v, r.row.id, {t.id : t \in r.tags}).video_tags
    /\ sync' = [sync EXCEPT ![s] = NextEntry(@)]
    /\ UNCHANGED <<directories, videos, watch_history, fsTitle, quiet, named, migVars, envVars, reqVars, backfills>>
    /\ last' = NoCall
    /\ UNCHANGED returned

\* WalkDir returns.
SyncFinish(s) ==
    /\ sync[s].pc = "visit"
    /\ sync[s].todo = <<>>
    /\ sync' = [sync EXCEPT ![s] = Idle]
    /\ named' = [named EXCEPT ![s] = {}]
    /\ quiet' = CASE quiet.phase = 1 -> [phase |-> 2, d |-> quiet.d]
                  [] quiet.phase = 3 -> [phase |-> 4, d |-> quiet.d]
                  [] OTHER -> quiet
    /\ skipped' = [skipped EXCEPT ![s] = {}]
    /\ cancelled' = cancelled \ {s}
    /\ UNCHANGED <<fsTitle, catVars, migVars, disk, lastSet, req, keywords, flow, backfills>>
    /\ last' = NoCall
    /\ UNCHANGED returned

\* The client of the request that runs syncDir goes away: r.Context() is
\* cancelled.  syncDir takes no context; its store calls get
\* context.Background() and metadata.Read starts ffprobe with exec.Command.
Cancel(s) ==
    /\ sync[s].pc # "idle"
    /\ s \notin cancelled
    /\ cancelled' = cancelled \cup {s}
    /\ UNCHANGED <<migVars, catVars, syncVars, histVars, envVars, req, keywords, flow, backfills>>

\* handleUpdateVideoName: UpdateVideoName, GetVideo, then the title is written
\* to the file when a name was given and ffmpeg succeeds.
HandleUpdateVideoName(id, name, written) ==
    /\ StoreReady
    /\ videos' = UpdateVideoNameResult(id, name)
    /\ fsTitle' = IF name # "" /\ written
                  THEN [f \in DOMAIN fsTitle |->
                           IF \E v \in videos : v.id = id /\ FilePath(v) = f
                           THEN name ELSE fsTitle[f]]
                  ELSE fsTitle
    /\ named' = [s \in Syncers |-> IF name = "" THEN named[s] \ {id} ELSE named[s]]
    /\ quiet' = [phase |-> 0]
    /\ UNCHANGED <<directories, tags, video_tags, watch_history, autoinc, sync, migVars, envVars, reqVars, backfills>>
    /\ last' = NoCall
    /\ UNCHANGED returned

(***************************************************************************)
(* The video listings and their ORDER BY.                                  *)
(***************************************************************************)
\* The bytes of the strings that occur as file names and display names.
Bytes(str) ==
    CASE str = "a.mp4" -> <<97, 46, 109, 112, 52>>
      [] str = "b.MKV" -> <<98, 46, 77, 75, 86>>
      [] str = "N" -> <<78>>
      [] str = "T" -> <<84>>
      [] str = "n" -> <<110>>
      [] OTHER -> <<>>

\* SQL LOWER(): the ASCII letters A-Z become a-z.
Lower(bs) == [i \in DOMAIN bs |-> IF bs[i] >= 65 /\ bs[i] <= 90 THEN bs[i] + 32 ELSE bs[i]]

\* The BINARY collation (memcmp, the shorter string first on a common prefix).
BinaryLess(a, b) ==
    \/ \E i \in DOMAIN a \cap DOMAIN b :
           /\ a[i] < b[i]
           /\ \A j \in 1..(i - 1) : a[j] = b[j]
    \/ /\ Len(a) < Len(b)
       /\ \A j \in DOMAIN a : a[j] = b[j]

\* COALESCE(NULLIF(display_name, ''), filename)
OrderKey(v) == Bytes(IF v.display_name # "" THEN v.display_name ELSE v.filename)

\* ORDER BY key: the rows in ascending BINARY order of the key (rows with
\* equal keys in rowid order).
RECURSIVE OrderBy(_)
OrderBy(rows) ==
    IF rows = {} THEN <<>>
    ELSE LET m == CHOOSE v \in rows :
                      \A w \in rows : /\ ~BinaryLess(OrderKey(w), OrderKey(v))
                                      /\ (OrderKey(w) = OrderKey(v) => v.id <= w.id)
         IN <<m>> \o OrderBy(rows \ {m})

ListVideos == OrderBy(videos)

ListVideosByTag(tagID) == OrderBy({v \in videos : <<v.id, tagID>> \in DOMAIN video_tags})

\* x LIKE '%' || q || '%'
Contains(hay, needle) ==
    \E off \in 0..(Len(hay) - Len(needle)) :
        \A i \in DOMAIN needle : hay[off + i] = needle[i]

\* WHERE LOWER(key) LIKE LOWER('%' || query || '%')
SearchVideos(query) ==
    OrderBy({v \in videos : Contains(Lower(OrderKey(v)), Lower(Bytes(query)))})

SearchInputs == {"", "N"}

(***************************************************************************)
(* Specifications over a database that NewSQLite has opened and migrated.  *)
(***************************************************************************)
RECURSIVE ApplyAll(_, _)
ApplyAll(d, files) ==
    IF files = <<>> THEN d
    ELSE ApplyAll(InsertLedger(ExecScript(d, Head(files).script).db, Head(files).name).db,
                  Tail(files))

\* The database NewSQLite leaves when every migration committed.
MigratedDb ==
    ApplyAll([schema |-> Cols("schema_migrations", SchemaMigrationsCols),
              ledger |-> EmptyLedger, settings |-> {}], Entries)

NoFlow == [pc |-> "idle", id |-> 0, todo |-> <<>>]

\* The clients that send tag requests.
Requesters == {"r1", "r2"}

NoRequest == [pc |-> "idle", v |-> 0, path |-> <<>>, names |-> {}]

InitCatalog ==
    /\ directories = {}
    /\ videos = {}
    /\ tags = {}
    /\ video_tags = <<>>
    /\ watch_history = {}
    /\ autoinc = [directories |-> 0, videos |-> 0, tags |-> 0, watch_history |-> 0]
    /\ sync = [s \in Syncers |-> Idle]
    /\ quiet = [phase |-> 0]
    /\ named = [s \in Syncers |-> {}]
    /\ last = NoCall
    /\ returned = [f \in VideoFiles |-> 0]
    /\ disk = Files
    /\ skipped = [s \in Syncers |-> {}]
    /\ lastSet = [k \in KnownKeys |-> ""]
    /\ cancelled = {}
    /\ req = [r \in Requesters |-> NoRequest]
    /\ keywords = [f \in VideoFiles |-> {}]
    /\ flow = NoFlow

InitOpened ==
    /\ db = MigratedDb
    /\ origin = "fresh"
    /\ pc = [p \in Openers |-> IF p = "p1" THEN "done" ELSE "idle"]
    /\ idx = [p \in Openers |-> IF p = "p1" THEN Len(Entries) + 1 ELSE 1]
    /\ tx = [p \in Openers |-> NoTx]
    /\ err = [p \in Openers |-> "nil"]
    /\ store = [p \in Openers |-> p = "p1"]
    /\ pool = {TRUE}
    /\ fullAtStart = [p \in Openers |-> FALSE]
    /\ injected = [p \in Openers |-> FALSE]
    /\ InitCatalog

Init ==
    /\ InitOpened
    /\ fsTitle = [f \in VideoFiles |-> ""]
    /\ backfills = <<>>

DirIdInputs == {1, 2}

VideoIdInputs == {1, 2}

\* The video the user tags and watches.
TaggedVideoInputs == {1}

TagIdInputs == {1}

\* The video whose name the user edits while directories are being synced.
RenameInputs == {2}

RatingInputs == {2}

PositionInputs == {30}

TagNames == {"x"}

Next ==
    \/ GrowPool
    \/ \E path \in Roots : AddDirectory(path)
    \/ \E fk \in BOOLEAN, id \in DirIdInputs : DeleteDirectory(fk, id)
    \/ \E fk \in BOOLEAN, dirID \in DirIdInputs, f \in VideoFiles :
           UpsertVideo(fk, dirID, Dir(f), Base(f))
    \/ \E id \in VideoIdInputs, name \in Names : UpdateVideoName(id, name)
    \/ \E id \in VideoIdInputs, r \in RatingInputs : SetVideoRating(id, r)
    \/ \E fk \in BOOLEAN, id \in VideoIdInputs : DeleteVideo(fk, id)
    \/ \E name \in TagNames : UpsertTag(name)
    \/ \E fk \in BOOLEAN, v \in TaggedVideoInputs, t \in TagIdInputs : TagVideo(fk, v, t)
    \/ \E v \in TaggedVideoInputs, t \in TagIdInputs : UntagVideo(v, t)
    \/ \E fk \in BOOLEAN, v \in TaggedVideoInputs, pos \in PositionInputs : RecordWatch(fk, v, pos)

Spec == Init /\ [][Next]_vars

InitSync ==
    /\ InitOpened
    /\ fsTitle = [f \in VideoFiles |-> IF Base(f) = "a.mp4" THEN "T" ELSE ""]
    /\ backfills = <<>>

NextSync ==
    \/ GrowPool
    \/ \E path \in Roots : AddDirectory(path)
    \/ \E fk \in BOOLEAN, id \in DirIdInputs : DeleteDirectory(fk, id)
    \/ \E id \in RenameInputs, name \in Names, written \in BOOLEAN :
           HandleUpdateVideoName(id, name, written)
    \/ \E s \in Syncers, d \in directories : SyncStart(s, d)
    \/ \E s \in Syncers, fk \in BOOLEAN : Visit(s, fk)
    \/ \E s \in Syncers : Backfill(s)
    \/ \E s \in Syncers, fk \in BOOLEAN : AutoTag(s, fk)
    \/ \E s \in Syncers : SyncFinish(s)

SpecSync == InitSync /\ [][NextSync]_vars

(***************************************************************************)
(* Ratings: the store call and the HTTP handler in front of it.            *)
(***************************************************************************)
\* handleSetRating: the form value is checked, then handed to the store.
HandleSetRating(id, rating) ==
    /\ StoreReady
    /\ videos' = IF rating < 0 \/ rating > 2
                 THEN videos
                 ELSE {IF v.id = id THEN [v EXCEPT !.rating = rating] ELSE v : v \in videos}
    /\ UNCHANGED <<directories, tags, video_tags, watch_history, autoinc, syncVars, migVars, envVars, reqVars, backfills>>
    /\ last' = NoCall
    /\ UNCHANGED returned

\* Ratings a caller may pass: the three valid ones and one on either side.
AnyRating == {-1, 0, 1, 2, 3}

NextRating ==
    \/ GrowPool
    \/ \E path \in Roots : AddDirectory(path)
    \/ \E fk \in BOOLEAN, dirID \in DirIdInputs, f \in VideoFiles :
           UpsertVideo(fk, dirID, Dir(f), Base(f))
    \/ \E fk \in BOOLEAN, id \in VideoIdInputs : DeleteVideo(fk, id)
    \/ \E id \in VideoIdInputs, r \in AnyRating : HandleSetRating(id, r)
    \/ \E id \in VideoIdInputs, r \in AnyRating : SetVideoRating(id, r)

SpecRating == Init /\ [][NextRating]_vars

(***************************************************************************)
(* Watch history.                                                          *)
(***************************************************************************)
\* Positions a player reports.
AnyPosition == {30, 95}

NextWatch ==
    \/ GrowPool
    \/ \E path \in Roots : AddDirectory(path)
    \/ \E fk \in BOOLEAN, dirID \in DirIdInputs, f \in VideoFiles :
           UpsertVideo(fk, dirID, Dir(f), Base(f))
    \/ \E fk \in BOOLEAN, id \in VideoIdInputs : DeleteVideo(fk, id)
    \/ \E fk \in BOOLEAN, v \in VideoIdInputs, pos \in AnyPosition : RecordWatch(fk, v, pos)

SpecWatch == Init /\ [][NextWatch]_vars

(***************************************************************************)
(* Concurrent syncDir runs over overlapping registered trees.              *)
(***************************************************************************)
\* Two registered folders, one inside the other.
OverlappingRoots == {<<"lib">>, <<"lib", "Shows">>}

NextOverlap ==
    \/ GrowPool
    \/ \E path \in OverlappingRoots : AddDirectory(path)
    \/ \E s \in Syncers, d \in directories : SyncStart(s, d)
    \/ \E s \in Syncers, fk \in BOOLEAN : Visit(s, fk)
    \/ \E s \in Syncers : Backfill(s)
    \/ \E s \in Syncers, fk \in BOOLEAN : AutoTag(s, fk)
    \/ \E s \in Syncers : SyncFinish(s)

SpecOverlap == InitSync /\ [][NextOverlap]_vars

(***************************************************************************)
(* One syncDir walk that meets unreadable folders and failing upserts.     *)
(***************************************************************************)
WalkSyncers == {"s1"}

NextWalk ==
    \/ GrowPool
    \/ \E path \in Roots : AddDirectory(path)
    \/ \E fk \in BOOLEAN, id \in DirIdInputs : DeleteDirectory(fk, id)
    \/ \E s \in WalkSyncers, d \in directories : SyncStart(s, d)
    \/ \E s \in WalkSyncers : VisitError(s)
    \/ \E s \in WalkSyncers, fk \in BOOLEAN : Visit(s, fk)
    \/ \E s \in WalkSyncers : Backfill(s)
    \/ \E s \in WalkSyncers, fk \in BOOLEAN : AutoTag(s, fk)
    \/ \E s \in WalkSyncers : SyncFinish(s)

SpecWalk == InitSync /\ [][NextWalk]_vars

(***************************************************************************)
(* Deleting a video together with its file.                                *)
(***************************************************************************)
\* handleDeleteVideoAndFile: GetVideo (404 when there is no row), DeleteVideo,
\* then os.Remove, whose error is logged only.  removed says whether the
\* operating system lets the unlink go through.
HandleDeleteVideoAndFile(fk, id, removed) ==
    /\ StoreReady
    /\ fk \in pool
    /\ IF id \notin VideoIds
       THEN /\ UNCHANGED <<videos, video_tags, watch_history, disk, returned>>
            /\ last' = NoCall
       ELSE LET video == CHOOSE v \in videos : v.id = id
            IN /\ videos' = {v \in videos : v.id # id}
               /\ video_tags' = IF fk
                                THEN RestrictTags(video_tags, [q \in DOMAIN video_tags |-> q[1] # id])
                                ELSE video_tags
               /\ watch_history' = IF fk
                                   THEN {w \in watch_history : w.video_id # id}
                                   ELSE watch_history
               /\ disk' = IF removed THEN disk \ {FilePath(video)} ELSE disk
               /\ last' = [op |-> "DeleteVideoAndFile", id |-> id]
               /\ returned' = [f \in DOMAIN returned |-> IF returned[f] = id THEN 0 ELSE returned[f]]
    /\ UNCHANGED <<directories, tags, autoinc, syncVars, migVars, skipped, lastSet, reqVars, backfills>>

NextFiles ==
    \/ GrowPool
    \/ \E path \in Roots : AddDirectory(path)
    \/ \E fk \in BOOLEAN, dirID \in DirIdInputs, f \in VideoFiles :
           UpsertVideo(fk, dirID, Dir(f), Base(f))
    \/ \E fk \in BOOLEAN, id \in VideoIdInputs, removed \in BOOLEAN :
           HandleDeleteVideoAndFile(fk, id, removed)

SpecFiles == Init /\ [][NextFiles]_vars

(***************************************************************************)
(* Tag requests of several clients, with two tag names.                    *)
(***************************************************************************)
AnyTagNames == {"x", "y"}

AnyTagIds == {1, 2}

NextTags ==
    \/ GrowPool
    \/ \E fk \in BOOLEAN, f \in VideoFiles : UpsertVideo(fk, NULL, Dir(f), Base(f))
    \/ \E fk \in BOOLEAN, id \in VideoIdInputs : DeleteVideo(fk, id)
    \/ \E name \in AnyTagNames : UpsertTag(name)
    \/ \E fk \in BOOLEAN, v \in VideoIdInputs, t \in AnyTagIds : TagVideo(fk, v, t)
    \/ \E v \in VideoIdInputs, t \in AnyTagIds : UntagVideo(v, t)

SpecTags == Init /\ [][NextTags]_vars

(***************************************************************************)
(* Tag requests that use the names the running syncs upsert.               *)
(***************************************************************************)
RaceTagNames == {Base(path) : path \in OverlappingRoots}

NextTagRace ==
    \/ GrowPool
    \/ \E path \in OverlappingRoots : AddDirectory(path)
    \/ \E name \in RaceTagNames : UpsertTag(name)
    \/ \E s \in Syncers, d \in directories : SyncStart(s, d)
    \/ \E s \in Syncers, fk \in BOOLEAN : Visit(s, fk)
    \/ \E s \in Syncers : Backfill(s)
    \/ \E s \in Syncers, fk \in BOOLEAN : AutoTag(s, fk)
    \/ \E s \in Syncers : SyncFinish(s)

SpecTagRace == InitSync /\ [][NextTagRace]_vars

(***************************************************************************)
(* The settings of an open store.                                          *)
(***************************************************************************)
NextSettings ==
    \/ GrowPool
    \/ \E k \in KnownKeys, v \in SettingValues : SetSetting(k, v)

SpecSettings == Init /\ [][NextSettings]_vars

(***************************************************************************)
(* Requests whose context is cancelled while their syncDir runs.           *)
(***************************************************************************)
NextCancel ==
    \/ GrowPool
    \/ \E path \in Roots : AddDirectory(path)
    \/ \E s \in Syncers, d \in directories : SyncStart(s, d)
    \/ \E s \in Syncers : Cancel(s)
    \/ \E s \in Syncers, fk \in BOOLEAN : Visit(s, fk)
    \/ \E s \in Syncers : Backfill(s)
    \/ \E s \in Syncers, fk \in BOOLEAN : AutoTag(s, fk)
    \/ \E s \in Syncers : SyncFinish(s)

SpecCancel == InitSync /\ [][NextCancel]_vars

(***************************************************************************)
(* Tag requests and the keywords written back to the video file.           *)
(***************************************************************************)
\* ListTagsByVideo: the names of the tags joined to the video's pairs.
ListTagsByVideo(videoID) == {t.name : t \in {u \in tags : <<videoID, u.id>> \in DOMAIN video_tags}}

\* GetVideo succeeded: the handler goes on to syncTagsToFile.
ToSyncTags(id) ==
    IF id \in VideoIds
    THEN [pc |-> "list", v |-> id, path |-> FilePath(CHOOSE v \in videos : v.id = id), names |-> {}]
    ELSE NoRequest

\* handleAddVideoTag up to GetVideo: UpsertTag, TagVideo (500 on an error),
\* ListTagsByVideo for the response, GetVideo.
HandleAddVideoTag(r, fk, id, tagName) ==
    /\ StoreReady
    /\ req[r].pc = "idle"
    /\ fk \in pool
    /\ LET t == UpsertTagResult(tagName)
           tv == TagVideoResult(fk, id, t.row.id, {u.id : u \in t.tags})
       IN /\ t.autoinc.tags <= MaxTagId
          /\ tags' = t.tags
          /\ autoinc' = t.autoinc
          /\ video_tags' = tv.video_tags
          /\ req' = [req EXCEPT ![r] = IF tv.ok THEN ToSyncTags(id) ELSE NoRequest]
    /\ UNCHANGED <<directories, videos, watch_history, syncVars, migVars, envVars, returned,
                   cancelled, keywords, flow, backfills>>
    /\ last' = NoCall

\* handleRemoveVideoTag up to GetVideo: UntagVideo, ListTagsByVideo, GetVideo.
HandleRemoveVideoTag(r, id, tagID) ==
    /\ StoreReady
    /\ req[r].pc = "idle"
    /\ video_tags' = RestrictTags(video_tags,
                                  [q \in DOMAIN video_tags |->
                                      q \notin UntagRows(video_tags, id, tagID)])
    /\ req' = [req EXCEPT ![r] = ToSyncTags(id)]
    /\ UNCHANGED <<directories, videos, tags, watch_history, autoinc, syncVars, migVars, envVars,
                   returned, cancelled, keywords, flow, backfills>>
    /\ last' = NoCall

\* syncTagsToFile: ListTagsByVideo(video.ID)
SyncTagsList(r) ==
    /\ req[r].pc = "list"
    /\ req' = [req EXCEPT ![r] = [@ EXCEPT !.pc = "write", !.names = ListTagsByVideo(req[r].v)]]
    /\ UNCHANGED <<migVars, catVars, syncVars, envVars, returned, cancelled, keywords, flow, backfills>>
    /\ last' = NoCall

\* syncTagsToFile: metadata.Write(video.FilePath(), Updates{Keywords: names});
\* an error is logged.  The handler then renders the response.
SyncTagsWrite(r, written) ==
    /\ req[r].pc = "write"
    /\ keywords' = IF written /\ req[r].path \in disk /\ req[r].path \in DOMAIN keywords
                   THEN [keywords EXCEPT ![req[r].path] = req[r].names]
                   ELSE keywords
    /\ req' = [req EXCEPT ![r] = NoRequest]
    /\ last' = [op |-> "Write", id |-> req[r].v, keywords |-> req[r].names]
    /\ UNCHANGED <<migVars, catVars, syncVars, envVars, returned, cancelled, flow, backfills>>

\* One client's tag requests next to a sync that auto-tags.
NextTagFile ==
    \/ GrowPool
    \/ \E path \in Roots : AddDirectory(path)
    \/ \E s \in WalkSyncers, d \in directories : SyncStart(s, d)
    \/ \E s \in WalkSyncers, fk \in BOOLEAN : Visit(s, fk)
    \/ \E s \in WalkSyncers : Backfill(s)
    \/ \E s \in WalkSyncers, fk \in BOOLEAN : AutoTag(s, fk)
    \/ \E s \in WalkSyncers : SyncFinish(s)
    \/ \E fk \in BOOLEAN, id \in TaggedVideoInputs, n \in TagNames : HandleAddVideoTag("r1", fk, id, n)
    \/ \E id \in TaggedVideoInputs, t \in AnyTagIds : HandleRemoveVideoTag("r1", id, t)
    \/ SyncTagsList("r1")
    \/ \E written \in BOOLEAN : SyncTagsWrite("r1", written)

SpecTagFile == InitSync /\ [][NextTagFile]_vars

\* Two clients' tag requests for the same video; the writer always succeeds.
NextTagRequests ==
    \/ GrowPool
    \/ \E fk \in BOOLEAN, f \in VideoFiles : UpsertVideo(fk, NULL, Dir(f), Base(f))
    \/ \E r \in Requesters, fk \in BOOLEAN, id \in TaggedVideoInputs, n \in AnyTagNames :
           HandleAddVideoTag(r, fk, id, n)
    \/ \E r \in Requesters, id \in TaggedVideoInputs, t \in AnyTagIds :
           HandleRemoveVideoTag(r, id, t)
    \/ \E r \in Requesters : SyncTagsList(r)
    \/ \E r \in Requesters : SyncTagsWrite(r, TRUE)

SpecTagRequests == Init /\ [][NextTagRequests]_vars

(***************************************************************************)
(* Removing a directory together with its files.                           *)
(***************************************************************************)
\* ListVideosByDirectory: WHERE directory_id = ? ORDER BY filename
RECURSIVE OrderByFilename(_)
OrderByFilename(rows) ==
    IF rows = {} THEN <<>>
    ELSE LET m == CHOOSE v \in rows :
                      \A w \in rows : /\ ~BinaryLess(Bytes(w.filename), Bytes(v.filename))
                                      /\ (w.filename = v.filename => v.id <= w.id)
         IN <<m>> \o OrderByFilename(rows \ {m})

ListVideosByDirectory(dirID) == OrderByFilename({v \in videos : v.directory_id = dirID})

\* handleDeleteDirectoryAndFiles: ListVideosByDirectory
FlowStart(id) ==
    /\ StoreReady
    /\ flow.pc = "idle"
    /\ flow' = [pc |-> "delete", id |-> id, todo |-> ListVideosByDirectory(id)]
    /\ UNCHANGED <<migVars, catVars, syncVars, envVars, returned, cancelled, req, keywords, backfills>>
    /\ last' = NoCall

\* The loop body's DeleteVideo(v.ID); an error of the call (failed) is logged.
FlowDeleteVideo(fk, failed) ==
    /\ flow.pc = "delete"
    /\ flow.todo # <<>>
    /\ fk \in pool
    /\ LET id == Head(flow.todo).id
       IN IF failed
          THEN UNCHANGED <<videos, video_tags, watch_history, returned>>
          ELSE /\ videos' = {v \in videos : v.id # id}
               /\ video_tags' = IF fk /\ id \in VideoIds
                                THEN RestrictTags(video_tags,
                                                  [q \in DOMAIN video_tags |-> q[1] # id])
                                ELSE video_tags
               /\ watch_history' = IF fk /\ id \in VideoIds
                                   THEN {w \in watch_history : w.video_id # id}
                                   ELSE watch_history
               /\ returned' = [f \in DOMAIN returned |->
                                  IF returned[f] = id THEN 0 ELSE returned[f]]
    /\ flow' = [flow EXCEPT !.pc = "unlink"]
    /\ UNCHANGED <<directories, tags, autoinc, syncVars, migVars, envVars, cancelled, req, keywords, backfills>>
    /\ last' = NoCall

\* The loop body's os.Remove(v.FilePath()); an error (~removed) is logged.
FlowUnlink(removed) ==
    /\ flow.pc = "unlink"
    /\ disk' = IF removed THEN disk \ {FilePath(Head(flow.todo))} ELSE disk
    /\ flow' = [flow EXCEPT !.pc = "delete", !.todo = Tail(@)]
    /\ UNCHANGED <<migVars, catVars, syncVars, skipped, lastSet, returned, cancelled, req, keywords, backfills>>
    /\ last' = NoCall

\* After the loop: DeleteDirectory(id); 500 on an error, else the list is served.
FlowDeleteDirectory(fk, failed) ==
    /\ flow.pc = "delete"
    /\ flow.todo = <<>>
    /\ fk \in pool
    /\ IF failed
       THEN UNCHANGED <<directories, videos>>
       ELSE /\ directories' = {d \in directories : d.id # flow.id}
            /\ videos' = OnDeleteSetNull(videos, fk, flow.id)
    /\ flow' = NoFlow
    /\ last' = IF failed THEN NoCall ELSE [op |-> "DeleteDirectoryAndFiles", id |-> flow.id]
    /\ quiet' = [phase |-> 0]
    /\ UNCHANGED <<tags, video_tags, watch_history, autoinc, fsTitle, sync, named, migVars, envVars,
                   returned, cancelled, req, keywords, backfills>>

NextDeleteFlow ==
    \/ GrowPool
    \/ \E path \in Roots : AddDirectory(path)
    \/ \E fk \in BOOLEAN, dirID \in DirIdInputs, f \in VideoFiles :
           UpsertVideo(fk, dirID, Dir(f), Base(f))
    \/ \E d \in directories : FlowStart(d.id)
    \/ \E fk \in BOOLEAN, failed \in BOOLEAN : FlowDeleteVideo(fk, failed)
    \/ \E removed \in BOOLEAN : FlowUnlink(removed)
    \/ \E fk \in BOOLEAN, failed \in BOOLEAN : FlowDeleteDirectory(fk, failed)

SpecDeleteFlow == Init /\ [][NextDeleteFlow]_vars

(***************************************************************************)
(* Overlapping syncDir runs with the backfill writes counted per video.    *)
(***************************************************************************)
InitBackfill ==
    /\ InitOpened
    /\ fsTitle = [f \in VideoFiles |-> IF Base(f) = "a.mp4" THEN "T" ELSE ""]
    /\ backfills = [v \in 1..MaxVideoId |-> 0]

SpecBackfill == InitBackfill /\ [][NextOverlap]_vars

InitMig ==
    /\ \E s \in {EmptySchema, OldestSchema} :
          /\ db = [schema |-> s, ledger |-> EmptyLedger, settings |-> {}]
          /\ origin = IF s = EmptySchema THEN "fresh" ELSE "oldest"
    /\ pc = [p \in Openers |-> "idle"]
    /\ idx = [p \in Openers |-> 1]
    /\ tx = [p \in Openers |-> NoTx]
    /\ err = [p \in Openers |-> "nil"]
    /\ store = [p \in Openers |-> FALSE]
    /\ pool = {}
    /\ fullAtStart = [p \in Openers |-> FALSE]
    /\ injected = [p \in Openers |-> FALSE]
    /\ InitCatalog
    /\ fsTitle = [f \in VideoFiles |-> ""]
    /\ backfills = <<>>

NextMig ==
    \/ \E p \in Openers : Start(p)
    \/ \E p \in Openers : CreateLedger(p)
    \/ \E p \in Openers : Check(p)
    \/ \E p \in Openers, fault \in BOOLEAN : Begin(p, fault)
    \/ \E p \in Openers, fault \in BOOLEAN : ExecMigration(p, fault)
    \/ \E p \in Openers, fault \in BOOLEAN : RecordMigration(p, fault)
    \/ \E p \in Openers, fault \in BOOLEAN : CommitMigration(p, fault)
    \/ \E p \in Openers : Exit(p)
    \/ LegacyOpen
    \/ \E k \in SettingKeys, v \in SettingValues : SetSetting(k, v)

SpecMig == InitMig /\ [][NextMig]_vars

\* Two openers of one file, each anywhere inside runMigrations.
NextMigRace ==
    \/ \E p \in Openers : StartConcurrent(p)
    \/ \E p \in Openers : CreateLedger(p)
    \/ \E p \in Openers : Check(p)
    \/ \E p \in Openers, fault \in BOOLEAN : Begin(p, fault)
    \/ \E p \in Openers, fault \in BOOLEAN : ExecMigration(p, fault)
    \/ \E p \in Openers, fault \in BOOLEAN : RecordMigration(p, fault)
    \/ \E p \in Openers, fault \in BOOLEAN : CommitMigration(p, fault)
    \/ \E p \in Openers : Exit(p)

SpecMigRace == InitMig /\ [][NextMigRace]_vars

(***************************************************************************)
(* Properties of the migration engine.                                     *)
(***************************************************************************)
\* ListMigrations: SELECT version FROM schema_migrations ORDER BY version
RECURSIVE ListMigrationsFrom(_, _)
ListMigrationsFrom(d, files) ==
    IF files = <<>> THEN <<>>
    ELSE [k \in 1..d.ledger[Head(files).name] |-> Head(files).name]
             \o ListMigrationsFrom(d, Tail(files))

ListMigrations(d) == ListMigrationsFrom(d, SortEntries(migrationFS))

InTx(p) == pc[p] \in {"begin", "exec", "record", "commit"}

\* What a statement leaves behind once it has run.
StmtApplied(d, st) ==
    CASE st.op \in {"create_if_not_exists", "create"} -> HasTable(d.schema, st.table)
      [] st.op = "add_column" -> \A c \in st.cols : HasColumn(d.schema, st.table, c)
      [] st.op = "insert_or_ignore" -> \A kv \in st.cols : \E old \in d.settings : old[1] = kv[1]
      [] OTHER -> TRUE

ScriptApplied(d, ver) ==
    \A i \in DOMAIN migrationFS :
        migrationFS[i].name = ver =>
            \A k \in DOMAIN migrationFS[i].script : StmtApplied(d, migrationFS[i].script[k])

\* C1: an UpsertVideo call on a file that already has a row changes nothing
\* but that row's directory_id: every row keeps its id, filename,
\* directory_path, display_name and rating, no row is added or removed, and
\* tag associations, watch records, tags and directories are untouched.
C1_UpsertVideoFrame ==
    [][\A f \in VideoFiles, fk \in pool, dirID \in DirIdInputs :
           (ConflictRows(videos, Dir(f), Base(f)) # {} /\ UpsertVideo(fk, dirID, Dir(f), Base(f))) =>
               /\ \A v \in videos : \E w \in videos' :
                      /\ w.id = v.id
                      /\ IF v \in ConflictRows(videos, Dir(f), Base(f))
                         THEN w = [v EXCEPT !.directory_id = w.directory_id]
                         ELSE w = v
               /\ Cardinality(videos') = Cardinality(videos)
               /\ video_tags' = video_tags
               /\ watch_history' = watch_history
               /\ tags' = tags
               /\ directories' = directories]_vars

C1_Witness ==
    /\ last.op = "UpsertVideo"
    /\ Cardinality(videos) = 2
    /\ \E v \in videos :
           /\ v.id = last.id
           /\ v.display_name = "N"
           /\ v.rating = 2
           /\ TagCount(v.id, 1) = 1
           /\ \E w \in watch_history : w.video_id = v.id

\* C2: the catalog never holds two rows with the same (filename,
\* directory_path), the id a caller holds for a file is the id of the file's
\* row, and a successful UpsertVideo for a file whose row was not deleted
\* since the previous call returns the id the previous call returned.
C2_UpsertIdentity ==
    /\ [](/\ \A v, w \in videos :
                (v.filename = w.filename /\ v.directory_path = w.directory_path) => v = w
          /\ \A f \in VideoFiles :
                returned[f] # 0 => \E v \in videos : v.id = returned[f] /\ FilePath(v) = f)
    /\ [][\A f \in VideoFiles, fk \in pool, dirID \in DirIdInputs :
              (/\ returned[f] # 0
               /\ UpsertVideoResult(fk, dirID, Dir(f), Base(f)).ok
               /\ UpsertVideo(fk, dirID, Dir(f), Base(f))) => returned'[f] = returned[f]]_vars

C2_Witness ==
    /\ last.op = "UpsertVideo"
    /\ last.id = 2
    /\ \E f \in VideoFiles : returned[f] = 2
    /\ Cardinality(videos) = 1

\* C3: when syncDir runs over a registered directory with no other call in
\* between, then once it has returned every video file below the directory
\* has exactly one row, there is exactly one tag named after the directory
\* and each of those rows is associated with it exactly once; a second run
\* changes no video row, no tag and no association.
C3_SyncIdempotent ==
    /\ [](quiet.phase \in {2, 4} =>
             /\ \A f \in VideoFiles :
                    IsUnder(f, quiet.d.path) => Cardinality({v \in videos : FilePath(v) = f}) = 1
             /\ Cardinality({t \in tags : t.name = Base(quiet.d.path)}) = 1
             /\ \A v \in videos, t \in tags :
                    (IsUnder(FilePath(v), quiet.d.path) /\ t.name = Base(quiet.d.path)) =>
                        TagCount(v.id, t.id) = 1)
    /\ [][(quiet.phase = 3 /\ quiet'.phase \in {3, 4}) =>
              (videos' = videos /\ tags' = tags /\ video_tags' = video_tags)]_vars

C3_Witness ==
    /\ quiet.phase = 4
    /\ Cardinality(videos) = 2
    /\ \E v \in videos : v.display_name = "T"

\* C4: a syncDir run never changes the display_name of a video whose
\* display_name was non-empty when the run started, whatever title the file
\* carries.
C4_EditPreserved ==
    [][\A s \in Syncers :
           (sync'[s] # sync[s] /\ sync[s].pc # "idle") =>
               \A v \in videos :
                   v.id \in named[s] =>
                       \E w \in videos' : w.id = v.id /\ w.display_name = v.display_name]_vars

C4_Witness ==
    \E s \in Syncers, v \in videos :
        /\ sync[s].pc = "tag"
        /\ sync[s].v = v.id
        /\ v.id \in named[s]
        /\ v.display_name = "N"
        /\ fsTitle[FilePath(v)] = "T"

\* C5: DeleteDirectory on a registered directory removes no video row, every
\* row keeps its id, filename and directory_path, and every row that
\* referenced the directory has no directory reference afterwards.
C5_DeleteDirectoryDetaches ==
    [][\A fk \in pool, id \in DirectoryIds :
           DeleteDirectory(fk, id) =>
               /\ Cardinality(videos') = Cardinality(videos)
               /\ \A v \in videos : \E w \in videos' :
                      /\ w.id = v.id
                      /\ w.filename = v.filename
                      /\ w.directory_path = v.directory_path
                      /\ v.directory_id = id => w.directory_id = NULL]_vars

\* C11: after a DeleteVideo call on an existing video, on any connection of
\* the pool, the video row is gone, no video_tags row and no watch_history
\* row refers to its id, the tags table is as before and no file has left
\* the disk.
C11_DeleteVideoCascades ==
    [][\A fk \in pool, id \in VideoIds :
           DeleteVideo(fk, id) =>
               /\ \A v \in videos' : v.id # id
               /\ \A q \in DOMAIN video_tags' : q[1] # id
               /\ \A w \in watch_history' : w.video_id # id
               /\ tags' = tags
               /\ disk' = disk]_vars

\* C12: a SetVideoRating call on the store with a rating outside {0, 1, 2}
\* changes no video row, and every video's rating is 0, 1 or 2 in every
\* state.
C12_RatingRange ==
    /\ [](\A v \in videos : v.rating \in {0, 1, 2})
    /\ [][\A id \in VideoIdInputs, r \in AnyRating \ {0, 1, 2} :
              SetVideoRating(id, r) => videos' = videos]_vars

\* C13: no state holds two watch records for one video, and after a
\* RecordWatch call that returned no error the video has exactly one
\* record, holding the position of that call.
C13_WatchUpsert ==
    /\ [](\A w1, w2 \in watch_history : w1.video_id = w2.video_id => w1 = w2)
    /\ [][\A fk \in pool, v \in VideoIdInputs, pos \in AnyPosition :
              (ReferenceOK(fk, v, VideoIds) /\ RecordWatch(fk, v, pos)) =>
                  /\ Cardinality({w \in watch_history' : w.video_id = v}) = 1
                  /\ \A w \in watch_history' : w.video_id = v => w.position = pos]_vars

C13_Witness ==
    /\ last.op = "RecordWatch"
    /\ Cardinality(watch_history) = 2
    /\ \E w \in watch_history : w.video_id = last.id /\ w.position = 95

C15_SyncPostcondition ==
    /\ [](quiet.phase \in {2, 4} =>
             /\ \A f \in VideoFiles :
                    IsUnder(f, quiet.d.path) =>
                        \E v \in videos, t \in tags :
                            /\ v.filename = Base(f)
                            /\ v.directory_path = Dir(f)
                            /\ v.directory_id = quiet.d.id
                            /\ t.name = Base(quiet.d.path)
                            /\ TagCount(v.id, t.id) >= 1
             /\ \A t \in tags : t.name = Base(quiet.d.path))
    /\ [][\A s \in Syncers : sync'[s] # sync[s] => directories' = directories]_vars

C15_Witness ==
    /\ quiet.phase = 2
    /\ quiet.d.id = 2
    /\ \E v \in videos :
           /\ v.directory_path = <<"lib", "Shows", "S1">>
           /\ v.directory_path # quiet.d.path
           /\ v.directory_id = 2

\* C16: a callback that ends in an error (an unreadable folder, a failed
\* UpsertVideo) changes no table and leaves the walk running; a callback for
\* a folder or a non-video file changes no table; and when the walk returns,
\* every video file of the tree that is neither a failed entry nor inside an
\* unreadable folder has a row that carries the root's tag.
C16_WalkContinues ==
    [][\A s \in WalkSyncers :
           /\ (sync[s].pc = "visit" /\ sync'[s] # sync[s] /\ sync[s].todo # <<>>) =>
                  LET e == Head(sync[s].todo)
                  IN /\ (skipped'[s] # skipped[s]) =>
                            /\ catVars' = catVars
                            /\ sync'[s].pc = "visit"
                            /\ \A i \in DOMAIN sync[s].todo :
                                   ~IsUnder(sync[s].todo[i].path, e.path) =>
                                       \E j \in DOMAIN sync'[s].todo :
                                           sync'[s].todo[j] = sync[s].todo[i]
                     /\ (e.isDir \/ ~isVideoFile(Base(e.path))) => catVars' = catVars
           /\ (sync[s].pc = "visit" /\ sync'[s].pc = "idle") =>
                  \A f \in VideoFiles :
                      (IsUnder(f, sync[s].d.path) /\ \A x \in skipped[s] : ~IsUnder(f, x)) =>
                          \E v \in videos, t \in tags :
                              /\ FilePath(v) = f
                              /\ t.name = Base(sync[s].d.path)
                              /\ TagCount(v.id, t.id) = 1]_vars

C16_Witness ==
    \E s \in WalkSyncers :
        /\ sync[s].pc = "visit"
        /\ sync[s].todo = <<>>
        /\ skipped[s] = {<<"lib", "Shows", "S1", "b.MKV">>}
        /\ \E v \in videos : v.filename = "a.mp4" /\ \E t \in tags : TagCount(v.id, t.id) = 1
        /\ \A v \in videos : v.filename # "b.MKV"

\* C17: when handleDeleteVideoAndFile answers with success for a video, the
\* video's row is gone and the file at its FilePath is no longer on the
\* disk; when it does not answer with success, no file has left the disk.
C17_DeleteVideoAndFile ==
    [][\A fk \in pool, id \in VideoIdInputs, removed \in BOOLEAN :
           HandleDeleteVideoAndFile(fk, id, removed) =>
               IF last'.op = "DeleteVideoAndFile"
               THEN \A v \in videos :
                        v.id = id => /\ id \notin {w.id : w \in videos'}
                                     /\ FilePath(v) \notin disk'
               ELSE disk' = disk]_vars

\* C18: a TagVideo call on a pair that is already in video_tags succeeds and
\* leaves video_tags as it was, an UntagVideo call on a pair that is not in
\* video_tags leaves video_tags as it was, and in every state each
\* (video_id, tag_id) pair is in video_tags at most once.
C18_TagIdempotent ==
    /\ [](\A q \in DOMAIN video_tags : video_tags[q] = 1)
    /\ [][/\ \A fk \in pool, v \in VideoIdInputs, t \in AnyTagIds :
                 (<<v, t>> \in DOMAIN video_tags /\ TagVideo(fk, v, t)) =>
                     /\ TagVideoResult(fk, v, t, TagIds).ok
                     /\ video_tags' = video_tags
                     /\ video_tags'[<<v, t>>] = 1
          /\ \A v \in VideoIdInputs, t \in AnyTagIds :
                 (<<v, t>> \notin DOMAIN video_tags /\ UntagVideo(v, t)) =>
                     video_tags' = video_tags]_vars

\* A second TagVideo on a pair has just returned, on a connection with
\* foreign_keys ON, while another pair of the same video is in the table.
C18_Witness ==
    /\ last = [op |-> "TagVideo", id |-> 1]
    /\ <<1, 1>> \in DOMAIN video_tags
    /\ <<1, 2>> \in DOMAIN video_tags
    /\ pool = {TRUE}

\* C19: tag names are unique in every state; no step removes or renumbers a
\* tag; UpsertTag(name), called by a request or by a running sync, returns
\* the row that already has the name and leaves the tags table as it was,
\* or, when no row has the name, adds exactly one row with a fresh id.
C19_UpsertTagIdentity ==
    /\ [](\A t1 \in tags, t2 \in tags : t1.name = t2.name => t1 = t2)
    /\ [][/\ tags \subseteq tags'
          /\ \A name \in RaceTagNames :
                 (\/ UpsertTag(name)
                  \/ \E s \in Syncers, fk \in pool :
                         /\ AutoTag(s, fk)
                         /\ name = AutoTagName(sync[s].d, Head(sync[s].todo).path)) =>
                     LET row == UpsertTagResult(name).row
                     IN /\ row.name = name
                        /\ row \in tags'
                        /\ IF \E t \in tags : t.name = name
                           THEN row \in tags /\ tags' = tags
                           ELSE tags' = tags \cup {row} /\ row.id \notin TagIds]_vars

\* Both syncs are about to upsert the root's name while a request has
\* already created the tag, and the other name has a tag too.
C19_Witness ==
    /\ \A s \in Syncers : sync[s].pc = "tag"
    /\ {t.name : t \in tags} = RaceTagNames
    /\ Cardinality(tags) = 2
    /\ DOMAIN video_tags = {}

\* C20: in every state of an open store, no key has two rows in settings;
\* GetSetting of a key without a row gives "" and a nil error; and GetSetting
\* of a key that SetSetting has stored gives the value of the latest
\* SetSetting for that key, with a nil error.
C20_Settings ==
    \A k \in KnownKeys :
        /\ Cardinality({kv \in db.settings : kv[1] = k}) <= 1
        /\ (~\E kv \in db.settings : kv[1] = k) =>
               GetSetting(db, k) = [value |-> "", err |-> "nil"]
        /\ lastSet[k] # "" =>
               GetSetting(db, k) = [value |-> lastSet[k], err |-> "nil"]

\* A seeded key has been overwritten, the other seeded key still has its
\* default, and the key that was never stored reads as "".
C20_Witness ==
    /\ lastSet["video_sort"] = "rating"
    /\ GetSetting(db, "video_sort") = [value |-> "rating", err |-> "nil"]
    /\ lastSet["autoplay_random"] = ""
    /\ GetSetting(db, "autoplay_random").value = "true"
    /\ lastSet["theme"] = ""
    /\ GetSetting(db, "theme") = [value |-> "", err |-> "nil"]

\* C21: once the context of the request that runs a sync is cancelled, that
\* sync makes no further store call (UpsertVideo, UpdateVideoName, UpsertTag,
\* TagVideo) and starts no further ffprobe: a cancelled walk changes no table.
C21_CancelAborts ==
    [][\A s \in cancelled :
           /\ (sync[s].pc \in {"backfill", "tag"}) => sync'[s] = sync[s]
           /\ (/\ sync[s].pc = "visit"
               /\ sync[s].todo # <<>>
               /\ ~Head(sync[s].todo).isDir
               /\ isVideoFile(Base(Head(sync[s].todo).path))) => sync'[s] = sync[s]]_vars

\* C22: in the lists ListVideos, ListVideosByTag and SearchVideos return,
\* any two videos whose lower-cased effective titles differ stand in the
\* order of their lower-cased titles.
C22_ListOrder ==
    LET TitleOrdered(list) ==
            \A i \in DOMAIN list, j \in DOMAIN list :
                (i < j /\ Lower(Bytes(Title(list[i]))) # Lower(Bytes(Title(list[j])))) =>
                    BinaryLess(Lower(Bytes(Title(list[i]))), Lower(Bytes(Title(list[j]))))
    IN /\ TitleOrdered(ListVideos)
       /\ \A t \in TagIdInputs : TitleOrdered(ListVideosByTag(t))
       /\ \A q \in SearchInputs : TitleOrdered(SearchVideos(q))

\* C23: syncTagsToFile lists the video's current tag names and passes exactly
\* that list to the metadata writer, whether or not the writer succeeds the
\* request ends and no table changes; and a sync callback that adds a tag
\* association to a video ends with the video's tag names passed to the
\* writer.
C23_TagsToFile ==
    [][/\ \A r \in Requesters :
              /\ (req[r].pc = "list" /\ req'[r] # req[r]) =>
                     req'[r].names = ListTagsByVideo(req[r].v)
              /\ (req[r].pc = "write" /\ req'[r] # req[r]) =>
                     /\ last' = [op |-> "Write", id |-> req[r].v, keywords |-> req[r].names]
                     /\ req'[r].pc = "idle"
                     /\ catVars' = catVars
       /\ \A s \in WalkSyncers :
              (sync[s].pc = "tag" /\ sync'[s] # sync[s] /\ video_tags' # video_tags) =>
                  /\ last'.op = "Write"
                  /\ last'.id = sync[s].v]_vars

\* C30: when no tag request is running any more and the last request wrote
\* the keywords of a video's file, the file's keywords are the names of the
\* video's tags in the store.
C30_KeywordsMatchStore ==
    (/\ \A r \in Requesters : req[r].pc = "idle"
     /\ last.op = "Write") =>
        \A v \in videos :
            (v.id = last.id /\ FilePath(v) \in DOMAIN keywords) =>
                keywords[FilePath(v)] = ListTagsByVideo(v.id)

C25_DeleteFlowOrder ==
    [][/\ (flow.pc = "unlink" /\ disk' # disk) => Head(flow.todo).id \notin VideoIds
       /\ (flow.pc # "idle" /\ flow.id \in DirectoryIds /\ flow.id \notin {d.id : d \in directories'}) =>
              flow.todo = <<>>
       /\ (flow.pc # "idle" /\ last'.op = "DeleteDirectoryAndFiles") =>
              \A v \in videos' : v.directory_id # flow.id]_vars

\* C26: over any sequence of syncDir runs, the backfill writes a given
\* video's display_name at most once.
C26_BackfillOnce == \A v \in DOMAIN backfills : backfills[v] <= 1

\* C27: the backfill step of a syncDir run never overwrites a display_name
\* that is non-empty when the step writes, so a name set by an explicit
\* UpdateVideoName after the run's UpsertVideo returned is still there when
\* the run finishes.
C27_BackfillKeepsEdit ==
    [][\A s \in Syncers :
           (sync[s].pc = "backfill" /\ sync'[s].pc = "tag") =>
               \A v \in videos :
                   v.display_name # "" =>
                       \E w \in videos' : w.id = v.id /\ w.display_name = v.display_name]_vars

\* C28: in every reachable state each video's directory_id is absent or the
\* id of an existing directory row, also when DeleteDirectory interleaves
\* with a running syncDir of that directory.
C28_NoDanglingDirectory ==
    \A v \in videos : v.directory_id = NULL \/ v.directory_id \in DirectoryIds

\* C29: when two runMigrations invocations run concurrently against one
\* database, no version is recorded twice in the ledger and no script takes
\* effect twice: a transaction commits only for a version the committed
\* ledger does not hold yet, the commit records it, and no recorded version
\* is ever removed.
C29_AppliedOncePerVersion ==
    /\ [](\A v \in Versions : db.ledger[v] <= 1)
    /\ [][/\ \A v \in Versions : db'.ledger[v] >= db.ledger[v]
          /\ \A p \in Openers :
                 (pc[p] = "commit" /\ pc'[p] = "check") =>
                     /\ db.ledger[Entries[idx[p]].name] = 0
                     /\ db'.ledger[Entries[idx[p]].name] = 1]_vars

\* The second opener checked a version before the first one committed it,
\* opened its own transaction for it, and was turned away.
C29_Witness ==
    \E p \in Openers, q \in Openers :
        /\ p # q
        /\ pc[p] \in {"check", "begin", "exec", "record", "commit", "done"}
        /\ idx[p] > idx[q]
        /\ pc[q] = "failed"
        /\ ~injected[q]
        /\ db.ledger[Entries[idx[q]].name] = 1

\* C6: once runMigrations has returned nil every bundled version is in the
\* ledger exactly once, and an invocation that starts on a complete ledger
\* opens no transaction, adds no ledger row and returns no error.
C6_MigrationsIdempotent ==
    \A p \in Openers :
        /\ (pc[p] = "done" /\ err[p] = "nil") => \A v \in Versions : db.ledger[v] = 1
        /\ (fullAtStart[p] /\ pc[p] # "idle") =>
               /\ pc[p] \in {"ledger", "check", "done"}
               /\ err[p] = "nil"
               /\ ~tx[p].open
               /\ \A v \in Versions : db.ledger[v] = 1

C6_Witness == \E p \in Openers : fullAtStart[p] /\ pc[p] = "done" /\ store[p]

\* C7: a failing step of a migration's transaction returns an error and
\* leaves the database as it was before the transaction, the ledger never
\* loses a row, and a version in the ledger has all of its script's effects.
C7_MigrationAtomic ==
    /\ [](\A v \in Versions : db.ledger[v] >= 1 => ScriptApplied(db, v))
    /\ [][/\ \A p \in Openers :
               (InTx(p) /\ pc'[p] \notin {pc[p], "exec", "record", "commit", "check"}) =>
                   /\ pc'[p] = "failed"
                   /\ err'[p] # "nil"
                   /\ ~tx'[p].open
                   /\ db' = db
           /\ \A v \in Versions : db'.ledger[v] >= db.ledger[v]]_vars

C7_Witness ==
    \E p \in Openers :
        /\ pc[p] = "failed"
        /\ err[p] = "record migration"
        /\ db.ledger["001_initial"] = 1
        /\ db.ledger["002_watch_history"] = 0
        /\ ~HasTable(db.schema, "watch_history")

\* C8: the recorded versions are always a prefix of the scripts in version
\* order, and an invocation that failed executes nothing further.
C8_LedgerPrefix ==
    /\ [](\A i, j \in DOMAIN migrationFS :
             (migrationFS[i].key < migrationFS[j].key /\ db.ledger[migrationFS[j].name] >= 1)
                 => db.ledger[migrationFS[i].name] >= 1)
    /\ [][\A p \in Openers :
              pc[p] = "failed" =>
                  (pc'[p] \in {"failed", "idle"} /\ idx'[p] = idx[p] /\ ~tx'[p].open)]_vars

C8_Witness ==
    \E p \in Openers :
        /\ pc[p] = "failed"
        /\ db.ledger["002_watch_history"] = 1
        /\ db.ledger["003_likes"] = 0

\* The schema a fresh database ends with.
FreshSchema == MigratedDb.schema

\* C9: on a fresh database and on one built by the pre-ledger schema
\* process, runMigrations fails only on an engine fault, and once it has
\* returned nil the tables and columns are those of a fresh database and
\* ListMigrations is every version once, ascending.
C9_MigrationDeterminism ==
    \A p \in Openers :
        origin \in {"fresh", "legacy"} =>
            /\ pc[p] = "failed" => injected[p]
            /\ pc[p] = "done" =>
                   /\ db.schema = FreshSchema
                   /\ ListMigrations(db) =
                          <<"001_initial", "002_watch_history", "003_likes", "004_settings">>

C9_Witness == \E p \in Openers : origin = "legacy" /\ pc[p] = "done" /\ ~injected[p]

\* C10: a failed runMigrations yields an error and no store, a store exists
\* only over a complete ledger, and no store operation runs otherwise.
C10_StartupFatal ==
    /\ [](\A p \in Openers :
             /\ pc[p] = "failed" => (~store[p] /\ err[p] # "nil")
             /\ store[p] => LedgerComplete(db))
    /\ [][(db'.settings # db.settings /\ db'.ledger = db.ledger) => LedgerComplete(db)]_vars

C10_Witness ==
    \E p \in Openers : pc[p] = "failed" /\ ~LedgerComplete(db) /\ db.ledger["001_initial"] = 1

====
